---- MODULE Spec2Model ----
(***************************************************************************)
(* A model of the file system store of @criteria/file-system-react:        *)
(* src/src/fileSystemStore.ts (the store) and src/unnamed/part_000 (the    *)
(* handle classifier and the tree walker visitHandles), with the           *)
(* reloadFileSystem that src/src/useFileSystem.ts imports.                 *)
(*                                                                         *)
(* Strings are sequences of one-character strings, so that the path        *)
(* arithmetic of the store (template literals, lastIndexOf, slice,         *)
(* startsWith) is computed the way the code computes it.                   *)
(***************************************************************************)
EXTENDS Integers, Sequences, FiniteSets, TLC

(***************************************************************************)
(* Bounds of the model.                                                    *)
(***************************************************************************)
\* handles the backing storage can ever hold, the root included
MaxHandles == 4
\* calls of the mutating operations by a caller that awaits each of them
MaxCalls == 3
\* calls of the mutating operations by a caller that does not await them
MaxRacingCalls == 2
\* calls of the mutating operations while an observer takes snapshots
MaxObservedCalls == 1
\* store operations in flight at the same time
MaxTasks == 2

(***************************************************************************)
(* Strings.                                                                *)
(***************************************************************************)
\* the names given to entries: one-character names
Names == {<<"a">>, <<"b">>}

\* the root handle's name and the root's path: the empty string
Root == <<>>

\* `${directoryPath}/${name}`
Join(directoryPath, name) == directoryPath \o <<"/">> \o name

\* String.prototype.lastIndexOf("/"): 0-based index of the last "/", -1 if none
LastIndexOf(s) ==
  LET hits == {i \in 1..Len(s) : s[i] = "/"}
  IN  IF hits = {} THEN -1 ELSE (CHOOSE i \in hits : \A j \in hits : j <= i) - 1

\* String.prototype.slice(start, end) for start >= 0: a negative end counts
\* from the end of the string
Slice(s, start, end) ==
  LET e == IF end < 0 THEN (IF Len(s) + end < 0 THEN 0 ELSE Len(s) + end)
           ELSE (IF end > Len(s) THEN Len(s) ELSE end)
  IN  IF start >= e THEN <<>> ELSE SubSeq(s, start + 1, e)

\* String.prototype.slice(start)
SliceFrom(s, start) == Slice(s, start, Len(s))

\* String.prototype.startsWith(prefix)
StartsWith(s, prefix) ==
  /\ Len(prefix) <= Len(s)
  /\ SubSeq(s, 1, Len(prefix)) = prefix

\* path.slice(0, path.lastIndexOf("/"))
ParentPath(path) == Slice(path, 0, LastIndexOf(path))

(***************************************************************************)
(* The state.                                                              *)
(***************************************************************************)
VARIABLES
  handles,      \* backing storage: handle id -> [kind, name, parent, alive]
  hasMove,      \* whether handles of this browser have a move method
  heap,         \* the FileSystem objects alive in memory: object id -> mapping
  fileSystem,   \* `let fileSystem`: the object the store's variable refers to
  cache,        \* filteredFileSystemsCache: filter -> object id
  listeners,    \* `listeners`: listener -> its options
  initialized,  \* `let initialized`
  initPc,       \* position of the one running initializeFileSystemIfNeeded
  initRef,      \* `initialFileSystem`: the object the walk writes into
  walkers,      \* the visitHandles invocations suspended in `for await`
  tasks,        \* the store operations in flight, by slot
  held,         \* the snapshot an observer got from its last getFileSystem
  awaited,      \* whether the caller awaits each operation before the next
  calls,        \* number of calls of mutating operations still to come
  walks,        \* number of walks of the backing root started so far
  resyncs,      \* number of notifications of the initialization so far
  out           \* what the last step returned, threw and notified

vars == <<handles, hasMove, heap, fileSystem, cache, listeners, initialized,
          initPc, initRef, walkers, tasks, held, awaited, calls, walks,
          resyncs, out>>

(***************************************************************************)
(* Handles and the backing storage (the File System API the store calls).  *)
(***************************************************************************)
RootHandle == 1

\* the object id of no object
NoObject == 0

NewHandle(kind, name, parent) ==
  [kind |-> kind, name |-> name, parent |-> parent, alive |-> TRUE]

\* the backing trees the origin private file system may hold at start: an
\* empty root, a root with a file, a root with a directory that holds a file
InitialTrees ==
  { <<NewHandle("directory", Root, 0)>>,
    <<NewHandle("directory", Root, 0),
      NewHandle("file", <<"c">>, 1)>>,
    <<NewHandle("directory", Root, 0),
      NewHandle("directory", <<"a">>, 1),
      NewHandle("file", <<"b">>, 2)>> }

isFileHandle(hs, h) == hs[h].kind = "file"

isDirectoryHandle(hs, h) == hs[h].kind = "directory"

\* the entries a directory holds
Children(hs, d) == {i \in 1..Len(hs) : hs[i].alive /\ hs[i].parent = d}

ChildNamed(hs, d, name) == {i \in Children(hs, d) : hs[i].name = name}

RECURSIVE Below(_, _, _)
\* whether handle h lies in the subtree of handle top
Below(hs, h, top) ==
  IF h = top THEN TRUE
  ELSE IF hs[h].parent = 0 THEN FALSE
  ELSE Below(hs, hs[h].parent, top)

Failed(name) == [err |-> name, h |-> 0, hs |-> <<>>]

Done(h, hs) == [err |-> "", h |-> h, hs |-> hs]

\* directory.getFileHandle(name, {create}) and
\* directory.getDirectoryHandle(name, {create})
GetHandle(hs, d, name, kind, create) ==
  IF ~hs[d].alive THEN Failed("NotFoundError")
  ELSE IF ChildNamed(hs, d, name) # {}
    THEN LET c == CHOOSE i \in ChildNamed(hs, d, name) : TRUE
         IN  IF hs[c].kind = kind THEN Done(c, hs)
             ELSE Failed("TypeMismatchError")
  ELSE IF ~create THEN Failed("NotFoundError")
  ELSE IF Len(hs) >= MaxHandles THEN Failed("QuotaExceededError")
  ELSE Done(Len(hs) + 1, Append(hs, NewHandle(kind, name, d)))

\* directory.removeEntry(name, options)
RemoveEntryOf(hs, d, name, recursive) ==
  IF ~hs[d].alive \/ ChildNamed(hs, d, name) = {} THEN Failed("NotFoundError")
  ELSE LET c == CHOOSE i \in ChildNamed(hs, d, name) : TRUE
       IN  IF Children(hs, c) # {} /\ ~recursive
           THEN Failed("InvalidModificationError")
           ELSE Done(c, [i \in 1..Len(hs) |->
                           IF Below(hs, i, c)
                           THEN [hs[i] EXCEPT !.alive = FALSE] ELSE hs[i]])

\* handle.move(newName): rename in place
MoveName(hs, h, newName) ==
  IF ~hs[h].alive THEN Failed("NotFoundError")
  ELSE IF ChildNamed(hs, hs[h].parent, newName) \ {h} # {}
    THEN Failed("InvalidModificationError")
  ELSE Done(h, [hs EXCEPT ![h].name = newName])

\* handle.move(directory): move into another directory, keeping the name
MoveInto(hs, h, d) ==
  IF ~hs[h].alive \/ ~hs[d].alive THEN Failed("NotFoundError")
  ELSE IF ChildNamed(hs, d, hs[h].name) \ {h} # {}
    THEN Failed("InvalidModificationError")
  ELSE Done(h, [hs EXCEPT ![h].parent = d])

\* what a call of the backing storage can answer: what the storage holds
\* decides it, or the call is rejected for a reason of its own
Answers(r) == {r, Failed("NotAllowedError")}

(***************************************************************************)
(* FileSystem objects, filters and listeners.                              *)
(***************************************************************************)
\* `{}`: a FileSystem object without entries
EmptyFileSystem == [p \in {} |-> 0]

\* smallest object id not in use: the identity of a newly created object
FreshObject(hp) ==
  CHOOSE i \in 1..(Cardinality(DOMAIN hp) + 1) :
    /\ i \notin DOMAIN hp
    /\ \A j \in 1..(i - 1) : j \in DOMAIN hp

\* the heap with a new object in it
Allocate(hp, id, m) ==
  [i \in DOMAIN hp \cup {id} |-> IF i = id THEN m ELSE hp[i]]

\* the heap without the objects nothing refers to any more
Live(hp, roots) == [i \in DOMAIN hp \cap roots |-> hp[i]]

\* With, when the spread of m is forgotten: { [path]: handle }
WithAlone(m, path, handle) == [p \in {path} |-> handle]

\* { ...m, [path]: handle }
With(m, path, handle) ==
  [p \in DOMAIN m \cup {path} |-> IF p = path THEN handle ELSE m[p]]

\* Without, when nothing is removed: `rest` is all of m
Keeping(m, paths) == m

\* m without the keys of paths: `const { [path]: _, ...rest } = m` and `delete`
Without(m, paths) == [p \in DOMAIN m \ paths |-> m[p]]

\* the filter functions the observers pass, each one identity
Filters ==
  { [kind |-> "startsWith", arg |-> <<"b">>],
    [kind |-> "equals", arg |-> <<"/", "a">>] }

\* options without a filter: `options ?? {}`
NoFilter == [kind |-> "none", arg |-> <<>>]

Options == Filters \cup {NoFilter}

Listeners == {"l1", "l2"}

\* filter(path)
FilterHolds(f, path) ==
  IF f.kind = "equals" THEN path = f.arg ELSE StartsWith(path, f.arg)

\* Invoked, with changedPaths.every in the place of changedPaths.some
InvokedEvery(ls, given, changedPaths) ==
  { l \in DOMAIN ls :
      IF given /\ ls[l].kind # "none"
      THEN \A path \in changedPaths : FilterHolds(ls[l], path)
      ELSE TRUE }

\* the listeners notifyFileSystemListeners(changedPaths) invokes; given is
\* FALSE when it is called without an argument
Invoked(ls, given, changedPaths) ==
  { l \in DOMAIN ls :
      IF given /\ ls[l].kind # "none"
      THEN \E path \in changedPaths : FilterHolds(ls[l], path)
      ELSE TRUE }

\* Filtered, when the filter is not applied: every entry is taken
FilteredAll(m, f) == m

\* the entries of m whose path satisfies the filter
Filtered(m, f) == [p \in {q \in DOMAIN m : FilterHolds(f, q)} |-> m[p]]

(***************************************************************************)
(* What a step lets the outside see.                                       *)
(***************************************************************************)
Quiet ==
  [op |-> "", path |-> <<>>, end |-> "", ret |-> <<>>, err |-> "",
   notify |-> "no", changed |-> {}, invoked |-> {}]

\* op, called with path as its first argument, rejects with err
Thrown(op, path, err) ==
  [Quiet EXCEPT !.op = op, !.path = path, !.end = "throw", !.err = err]

\* op, called with path as its first argument, returns ret
Returned(op, path, ret) ==
  [Quiet EXCEPT !.op = op, !.path = path, !.end = "return", !.ret = ret]

\* a return after notifyFileSystemListeners(changedPaths)
Notified(op, path, ret, changedPaths) ==
  [Returned(op, path, ret) EXCEPT
     !.notify = "paths", !.changed = changedPaths,
     !.invoked = Invoked(listeners, TRUE, changedPaths)]

(***************************************************************************)
(* The store operations in flight.                                         *)
(***************************************************************************)
Idle ==
  [op |-> "idle", pc |-> "", path |-> <<>>, arg |-> <<>>, flag |-> FALSE,
   h |-> 0, d |-> 0, opt |-> NoFilter, solo |-> TRUE,
   before |-> EmptyFileSystem]

Slots == 1..MaxTasks

FreeSlots == {s \in Slots : tasks[s].op = "idle"}

\* the slot a new call runs in
NextSlot == CHOOSE s \in FreeSlots : \A r \in FreeSlots : s <= r

\* nothing else is in progress when a call starts
Alone == FreeSlots = Slots /\ initPc \in {"none", "done"} /\ walkers = {}

\* the operations in flight are no longer on their own
Disturbed(ts) ==
  [s \in Slots |-> IF ts[s].op = "idle" THEN ts[s]
                   ELSE [ts[s] EXCEPT !.solo = FALSE]]

Started(op, path, arg, flag, h, d, pc) ==
  [op |-> op, pc |-> pc, path |-> path, arg |-> arg, flag |-> flag,
   h |-> h, d |-> d, opt |-> NoFilter, solo |-> Alone,
   before |-> heap[fileSystem]]

CanCall ==
  /\ calls > 0
  /\ IF awaited THEN FreeSlots = Slots ELSE FreeSlots # {}

\* the paths callers pass: the paths of the mapping, the root, and two more
PathArgs == DOMAIN heap[fileSystem] \cup {Root, <<"/", "a">>, <<"a">>}

\* the state when the module is loaded; the caller awaits its calls or not
\* and makes limit calls
InitWith(await, limit) ==
  /\ handles \in InitialTrees
  /\ hasMove \in BOOLEAN
  /\ heap = [i \in {1} |-> EmptyFileSystem]
  /\ fileSystem = 1
  /\ cache = [f \in {} |-> NoObject]
  /\ listeners = [l \in {} |-> NoFilter]
  /\ initialized = FALSE
  /\ initPc = "none"
  /\ initRef = NoObject
  /\ walkers = {}
  /\ tasks = [s \in Slots |-> Idle]
  /\ held = [ref |-> NoObject, copy |-> EmptyFileSystem, opt |-> NoFilter]
  /\ awaited = await
  /\ calls = limit
  /\ walks = 0
  /\ resyncs = 0
  /\ out = Quiet

Init ==
  \/ InitWith(TRUE, MaxCalls)
  \/ InitWith(FALSE, MaxRacingCalls)

(***************************************************************************)
(* Steps shared by the operations.                                         *)
(***************************************************************************)
backing == <<handles, hasMove, awaited>>

store == <<heap, fileSystem, cache>>

initialization == <<initialized, initPc, initRef, walkers, walks, resyncs>>

\* the objects something still refers to
Referenced(fs, ch, hd, ir) == {fs, hd.ref, ir} \cup {ch[f] : f \in DOMAIN ch}

\* `fileSystem = m; filteredFileSystemsCache.clear()` for a new object m
Replace(m) ==
  LET id == FreshObject(heap)
  IN  /\ fileSystem' = id
      /\ cache' = [f \in {} |-> NoObject]
      /\ heap' = Live(Allocate(heap, id, m), {id, held.ref, initRef})

\* the operation in slot s rejects
Throw(s, err) ==
  /\ tasks' = [tasks EXCEPT ![s] = Idle]
  /\ out' = Thrown(tasks[s].op, tasks[s].path, err)

\* the operation in slot s replaces the mapping, notifies and returns
Commit(s, m, ret, changedPaths) ==
  /\ Replace(m)
  /\ tasks' = [tasks EXCEPT ![s] = Idle]
  /\ out' = Notified(tasks[s].op, tasks[s].path, ret, changedPaths)

\* an operation rejects before its first await
ThrowAtCall(op, path, err) ==
  /\ calls' = calls - 1
  /\ out' = Thrown(op, path, err)
  /\ UNCHANGED <<backing, store, listeners, initialization, tasks, held>>

\* an operation returns before its first await
ReturnAtCall(op, path, ret) ==
  /\ calls' = calls - 1
  /\ out' = Returned(op, path, ret)
  /\ UNCHANGED <<backing, store, listeners, initialization, tasks, held>>

\* an operation suspends at its first await
Suspend(t) ==
  /\ calls' = calls - 1
  /\ tasks' = [Disturbed(tasks) EXCEPT ![NextSlot] = t]
  /\ out' = Quiet
  /\ UNCHANGED <<backing, store, listeners, initialization, held>>

(***************************************************************************)
(* The observers.                                                          *)
(***************************************************************************)
addFileSystemListener(listener, options) ==
  /\ listeners' = [l \in DOMAIN listeners \cup {listener} |->
                     IF l = listener THEN options ELSE listeners[l]]
  /\ out' = Quiet
  /\ UNCHANGED <<backing, store, initialization, tasks, held, calls>>

removeFileSystemListener(listener) ==
  /\ listener \in DOMAIN listeners
  /\ listeners' = [l \in DOMAIN listeners \ {listener} |-> listeners[l]]
  /\ out' = Quiet
  /\ UNCHANGED <<backing, store, initialization, tasks, held, calls>>

getFileSystem(options) ==
  /\ IF options.kind = "none"
     THEN /\ held' = [ref |-> fileSystem, copy |-> heap[fileSystem],
                      opt |-> options]
          /\ cache' = cache
          /\ heap' = Live(heap, Referenced(fileSystem, cache, held', initRef))
     ELSE IF options \in DOMAIN cache
     THEN /\ held' = [ref |-> cache[options], copy |-> heap[cache[options]],
                      opt |-> options]
          /\ cache' = cache
          /\ heap' = Live(heap, Referenced(fileSystem, cache, held', initRef))
     ELSE LET id == FreshObject(heap)
              filteredFileSystem == Filtered(heap[fileSystem], options)
          IN  /\ held' = [ref |-> id, copy |-> filteredFileSystem,
                          opt |-> options]
              /\ cache' = [f \in DOMAIN cache \cup {options} |->
                             IF f = options THEN id ELSE cache[f]]
              /\ heap' = Live(Allocate(heap, id, filteredFileSystem),
                              Referenced(fileSystem, cache', held', initRef))
  /\ out' = [Quiet EXCEPT !.op = "getFileSystem"]
  /\ UNCHANGED <<backing, fileSystem, listeners, initialization, tasks, calls>>

(***************************************************************************)
(* createFile(directoryPath, name, data)                                   *)
(***************************************************************************)
\* up to the first await: the existence probe
createFile(directoryPath, name, data) ==
  LET fs == heap[fileSystem]
  IN  /\ CanCall
      /\ IF \/ directoryPath \notin DOMAIN fs
            \/ ~isDirectoryHandle(handles, fs[directoryPath])
         THEN ThrowAtCall("createFile", directoryPath, "No directory at path")
         ELSE Suspend(Started("createFile", directoryPath, name, data,
                              fs[directoryPath], 0, "probe"))

\* createFileProbed, when the existing file does not stop the call: the
\* `throw` of the try block is missing
createFileProbedBlind(s) ==
  /\ tasks[s].op = "createFile" /\ tasks[s].pc = "probe"
  /\ \E r \in Answers(GetHandle(handles, tasks[s].h, tasks[s].arg,
                                "file", FALSE)) :
       IF r.err = "" \/ r.err = "NotFoundError"
       THEN /\ tasks' = [tasks EXCEPT ![s].pc = "create"]
            /\ out' = Quiet
       ELSE Throw(s, r.err)
  /\ UNCHANGED <<backing, store, listeners, initialization, held, calls>>

\* `await directory.getFileHandle(name, {create: false})` answers
createFileProbed(s) ==
  /\ tasks[s].op = "createFile" /\ tasks[s].pc = "probe"
  /\ \E r \in Answers(GetHandle(handles, tasks[s].h, tasks[s].arg,
                                "file", FALSE)) :
       IF r.err = "" THEN Throw(s, "already exists")
       ELSE IF r.err = "NotFoundError"
       THEN /\ tasks' = [tasks EXCEPT ![s].pc = "create"]
            /\ out' = Quiet
       ELSE Throw(s, r.err)
  /\ UNCHANGED <<backing, store, listeners, initialization, held, calls>>

\* `await directory.getFileHandle(name, {create: true})` answers
createFileCreated(s) ==
  /\ tasks[s].op = "createFile" /\ tasks[s].pc = "create"
  /\ \E r \in Answers(GetHandle(handles, tasks[s].h, tasks[s].arg,
                                "file", TRUE)) :
       IF r.err # ""
       THEN Throw(s, r.err) /\ UNCHANGED <<handles, store>>
       ELSE LET newPath == Join(tasks[s].path, tasks[s].arg)
                m == With(heap[fileSystem], newPath, r.h)
            IN  /\ handles' = r.hs
                /\ IF tasks[s].flag
                   THEN /\ Replace(m)
                        /\ tasks' = [tasks EXCEPT ![s].pc = "createWritable",
                                                  ![s].d = r.h]
                        /\ out' = Quiet
                   ELSE Commit(s, m, newPath, {tasks[s].path, newPath})
  /\ UNCHANGED <<hasMove, awaited, listeners, initialization, held, calls>>

\* the await after pc in the `if (data)` block
AfterWrite(pc) ==
  CASE pc = "createWritable" -> "truncate"
    [] pc = "truncate" -> "write"
    [] pc = "write" -> "close"
    [] pc = "close" -> "notify"

\* one of createWritable(), truncate(0), write(data), close() answers
createFileWritten(s) ==
  /\ tasks[s].op = "createFile"
  /\ tasks[s].pc \in {"createWritable", "truncate", "write", "close"}
  /\ \E r \in Answers(IF handles[tasks[s].d].alive
                      THEN Done(tasks[s].d, handles)
                      ELSE Failed("NotFoundError")) :
       IF r.err # "" THEN Throw(s, r.err)
       ELSE IF AfterWrite(tasks[s].pc) = "notify"
       THEN LET newPath == Join(tasks[s].path, tasks[s].arg)
            IN  /\ tasks' = [tasks EXCEPT ![s] = Idle]
                /\ out' = Notified("createFile", tasks[s].path, newPath,
                                   {tasks[s].path, newPath})
       ELSE /\ tasks' = [tasks EXCEPT ![s].pc = AfterWrite(tasks[s].pc)]
            /\ out' = Quiet
  /\ UNCHANGED <<backing, store, listeners, initialization, held, calls>>

(***************************************************************************)
(* createDirectory(directoryPath, name)                                    *)
(***************************************************************************)
\* createDirectory, when the kind of the handle at directoryPath is not
\* checked: `if (!directory)`
createDirectoryLax(directoryPath, name) ==
  LET fs == heap[fileSystem]
  IN  /\ CanCall
      /\ IF directoryPath \notin DOMAIN fs
         THEN ThrowAtCall("createDirectory", directoryPath,
                          "No directory at path")
         ELSE Suspend(Started("createDirectory", directoryPath, name, FALSE,
                              fs[directoryPath], 0, "probe"))

createDirectory(directoryPath, name) ==
  LET fs == heap[fileSystem]
  IN  /\ CanCall
      /\ IF \/ directoryPath \notin DOMAIN fs
            \/ ~isDirectoryHandle(handles, fs[directoryPath])
         THEN ThrowAtCall("createDirectory", directoryPath, "No directory at path")
         ELSE Suspend(Started("createDirectory", directoryPath, name, FALSE,
                              fs[directoryPath], 0, "probe"))

\* `await directory.getDirectoryHandle(name, {create: false})` answers
createDirectoryProbed(s) ==
  /\ tasks[s].op = "createDirectory" /\ tasks[s].pc = "probe"
  /\ \E r \in Answers(GetHandle(handles, tasks[s].h, tasks[s].arg,
                                "directory", FALSE)) :
       IF r.err = "" THEN Throw(s, "already exists")
       ELSE IF r.err = "NotFoundError"
       THEN /\ tasks' = [tasks EXCEPT ![s].pc = "create"]
            /\ out' = Quiet
       ELSE Throw(s, r.err)
  /\ UNCHANGED <<backing, store, listeners, initialization, held, calls>>

\* `await directory.getDirectoryHandle(name, {create: true})` answers
createDirectoryCreated(s) ==
  /\ tasks[s].op = "createDirectory" /\ tasks[s].pc = "create"
  /\ \E r \in Answers(GetHandle(handles, tasks[s].h, tasks[s].arg,
                                "directory", TRUE)) :
       IF r.err # ""
       THEN Throw(s, r.err) /\ UNCHANGED <<handles, store>>
       ELSE LET newPath == Join(tasks[s].path, tasks[s].arg)
            IN  /\ handles' = r.hs
                /\ Commit(s, With(heap[fileSystem], newPath, r.h), newPath,
                          {tasks[s].path, newPath})
  /\ UNCHANGED <<hasMove, awaited, listeners, initialization, held, calls>>

(***************************************************************************)
(* renameFile(filePath, newName)                                           *)
(***************************************************************************)
\* renameFile, when the handle is not tested for its move method
renameFileForced(filePath, newName) ==
  LET fs == heap[fileSystem]
  IN  /\ CanCall
      /\ IF filePath = Root
         THEN ThrowAtCall("renameFile", filePath, "Cannot rename file system root")
         ELSE IF filePath \notin DOMAIN fs \/ ~isFileHandle(handles, fs[filePath])
         THEN ThrowAtCall("renameFile", filePath, "No file at path")
         ELSE Suspend(Started("renameFile", filePath, newName, FALSE,
                              fs[filePath], 0, "move"))

renameFile(filePath, newName) ==
  LET fs == heap[fileSystem]
  IN  /\ CanCall
      /\ IF filePath = Root
         THEN ThrowAtCall("renameFile", filePath, "Cannot rename file system root")
         ELSE IF filePath \notin DOMAIN fs \/ ~isFileHandle(handles, fs[filePath])
         THEN ThrowAtCall("renameFile", filePath, "No file at path")
         ELSE IF hasMove
         THEN Suspend(Started("renameFile", filePath, newName, FALSE,
                              fs[filePath], 0, "move"))
         ELSE ReturnAtCall("renameFile", filePath, filePath)

\* `await file.move(newName)` answers
renameFileMoved(s) ==
  /\ tasks[s].op = "renameFile" /\ tasks[s].pc = "move"
  /\ \E r \in Answers(MoveName(handles, tasks[s].h, tasks[s].arg)) :
       IF r.err # ""
       THEN Throw(s, r.err) /\ UNCHANGED <<handles, store>>
       ELSE LET filePath == tasks[s].path
                directoryPath == Slice(filePath, 0, LastIndexOf(filePath))
                newFilePath == Join(directoryPath, tasks[s].arg)
                rest == Without(heap[fileSystem], {filePath})
            IN  /\ handles' = r.hs
                /\ Commit(s, With(rest, newFilePath, tasks[s].h), newFilePath,
                          {directoryPath, filePath, newFilePath})
  /\ UNCHANGED <<hasMove, awaited, listeners, initialization, held, calls>>

(***************************************************************************)
(* renameDirectory(directoryPath, newName)                                 *)
(***************************************************************************)
renameDirectory(directoryPath, newName) ==
  LET fs == heap[fileSystem]
  IN  /\ CanCall
      /\ IF directoryPath = Root
         THEN ThrowAtCall("renameDirectory", directoryPath, "Cannot rename file system root")
         ELSE IF \/ directoryPath \notin DOMAIN fs
                 \/ ~isDirectoryHandle(handles, fs[directoryPath])
         THEN ThrowAtCall("renameDirectory", directoryPath, "No directory at path")
         ELSE IF hasMove
         THEN Suspend(Started("renameDirectory", directoryPath, newName, FALSE,
                              fs[directoryPath], 0, "move"))
         ELSE ReturnAtCall("renameDirectory", directoryPath, directoryPath)

\* `await directory.move(newName)` answers
renameDirectoryMoved(s) ==
  /\ tasks[s].op = "renameDirectory" /\ tasks[s].pc = "move"
  /\ \E r \in Answers(MoveName(handles, tasks[s].h, tasks[s].arg)) :
       IF r.err # ""
       THEN Throw(s, r.err) /\ UNCHANGED <<handles, store>>
       ELSE LET directoryPath == tasks[s].path
                parentDirectoryPath ==
                  Slice(directoryPath, 0, LastIndexOf(directoryPath))
                newDirectoryPath == Join(parentDirectoryPath, tasks[s].arg)
                rest == Without(heap[fileSystem], {directoryPath})
            IN  /\ handles' = r.hs
                /\ Commit(s, With(rest, newDirectoryPath, tasks[s].h),
                          newDirectoryPath,
                          {parentDirectoryPath, directoryPath, newDirectoryPath})
  /\ UNCHANGED <<hasMove, awaited, listeners, initialization, held, calls>>

(***************************************************************************)
(* moveFile(filePath, directoryPath)                                       *)
(***************************************************************************)
\* moveFile, when the kind of the handle at directoryPath is not checked:
\* `file && isFileHandle(file) && directory`
moveFileAnywhere(filePath, directoryPath) ==
  LET fs == heap[fileSystem]
  IN  /\ CanCall
      /\ IF filePath = Root
         THEN ThrowAtCall("moveFile", filePath, "Cannot move file system root")
         ELSE IF /\ filePath \in DOMAIN fs
                 /\ isFileHandle(handles, fs[filePath])
                 /\ directoryPath \in DOMAIN fs
                 /\ hasMove
         THEN Suspend(Started("moveFile", filePath, directoryPath, FALSE,
                              fs[filePath], fs[directoryPath], "move"))
         ELSE ReturnAtCall("moveFile", filePath, filePath)

moveFile(filePath, directoryPath) ==
  LET fs == heap[fileSystem]
  IN  /\ CanCall
      /\ IF filePath = Root
         THEN ThrowAtCall("moveFile", filePath, "Cannot move file system root")
         ELSE IF /\ filePath \in DOMAIN fs
                 /\ isFileHandle(handles, fs[filePath])
                 /\ directoryPath \in DOMAIN fs
                 /\ isDirectoryHandle(handles, fs[directoryPath])
                 /\ hasMove
         THEN Suspend(Started("moveFile", filePath, directoryPath, FALSE,
                              fs[filePath], fs[directoryPath], "move"))
         ELSE ReturnAtCall("moveFile", filePath, filePath)

\* `await file.move(directory)` answers
moveFileMoved(s) ==
  /\ tasks[s].op = "moveFile" /\ tasks[s].pc = "move"
  /\ \E r \in Answers(MoveInto(handles, tasks[s].h, tasks[s].d)) :
       IF r.err # ""
       THEN Throw(s, r.err) /\ UNCHANGED <<handles, store>>
       ELSE LET filePath == tasks[s].path
                directoryPath == tasks[s].arg
                oldDirectoryPath == Slice(filePath, 0, LastIndexOf(filePath))
                newFilePath == Join(directoryPath, r.hs[tasks[s].h].name)
                rest == Without(heap[fileSystem], {filePath})
            IN  /\ handles' = r.hs
                /\ Commit(s, With(rest, newFilePath, tasks[s].h), newFilePath,
                          {oldDirectoryPath, filePath, directoryPath,
                           newFilePath})
  /\ UNCHANGED <<hasMove, awaited, listeners, initialization, held, calls>>

(***************************************************************************)
(* removeEntry(path, options)                                              *)
(***************************************************************************)
removeEntry(path, recursive) ==
  LET fs == heap[fileSystem]
      directoryPath == Slice(path, 0, LastIndexOf(path))
  IN  /\ CanCall
      /\ IF path = Root
         THEN ThrowAtCall("removeEntry", path, "Cannot remove file system root")
         ELSE IF \/ directoryPath \notin DOMAIN fs
                 \/ ~isDirectoryHandle(handles, fs[directoryPath])
         THEN ThrowAtCall("removeEntry", path, "No directory at path")
         ELSE Suspend(Started("removeEntry", path, <<>>, recursive,
                              fs[directoryPath], 0, "remove"))

\* removeEntryRemoved, when the keys below path are not collected:
\* removedPaths stays [path]
removeEntryRemovedAlone(s) ==
  /\ tasks[s].op = "removeEntry" /\ tasks[s].pc = "remove"
  /\ LET path == tasks[s].path
         directoryPath == Slice(path, 0, LastIndexOf(path))
         name == SliceFrom(path, LastIndexOf(path) + 1)
     IN  \E r \in Answers(RemoveEntryOf(handles, tasks[s].h, name,
                                        tasks[s].flag)) :
           IF r.err # ""
           THEN Throw(s, r.err) /\ UNCHANGED <<handles, store>>
           ELSE /\ handles' = r.hs
                /\ Commit(s, Without(heap[fileSystem], {path}),
                          <<>>, {directoryPath, path})
  /\ UNCHANGED <<hasMove, awaited, listeners, initialization, held, calls>>

\* `await directory.removeEntry(name, options)` answers
removeEntryRemoved(s) ==
  /\ tasks[s].op = "removeEntry" /\ tasks[s].pc = "remove"
  /\ LET path == tasks[s].path
         directoryPath == Slice(path, 0, LastIndexOf(path))
         name == SliceFrom(path, LastIndexOf(path) + 1)
     IN  \E r \in Answers(RemoveEntryOf(handles, tasks[s].h, name,
                                        tasks[s].flag)) :
           IF r.err # ""
           THEN Throw(s, r.err) /\ UNCHANGED <<handles, store>>
           ELSE LET removedPaths ==
                      {path} \cup
                      (IF tasks[s].flag
                       THEN {candidate \in DOMAIN heap[fileSystem] :
                               StartsWith(candidate, path \o <<"/">>)}
                       ELSE {})
                IN  /\ handles' = r.hs
                    /\ Commit(s, Without(heap[fileSystem], removedPaths),
                              <<>>, {directoryPath} \cup removedPaths)
  /\ UNCHANGED <<hasMove, awaited, listeners, initialization, held, calls>>

(***************************************************************************)
(* visitHandles(root, visitor) and initializeFileSystemIfNeeded()          *)
(***************************************************************************)
RECURSIVE VisitorPath(_, _, _)
\* the path the store's visitor gets when the visitor of a visitHandles
\* invocation depth levels below the root is called with path: each level
\* wraps the visitor in (path, handle) => visitor(`${handle.name}/${path}`)
VisitorPath(depth, path, name) ==
  IF depth = 0 THEN path
  ELSE VisitorPath(depth - 1, name \o <<"/">> \o path, name)

\* a visitHandles invocation suspended in its `for await`
Frame(dir, depth, seen) == [dir |-> dir, depth |-> depth, seen |-> seen]

\* the synchronous start of visitHandles(h, visitor) at a depth: the visitor
\* call, and the frame of the loop when h is a directory
VisitedMapping(m, hs, h, depth) ==
  With(m, VisitorPath(depth, hs[h].name, hs[h].name), h)

VisitedFrames(hs, h, depth) ==
  IF isDirectoryHandle(hs, h) THEN {Frame(h, depth, {})} ELSE {}

\* initializeFileSystemIfNeeded, when `if (initialized) return` is missing
initializeAgain ==
  LET id == FreshObject(heap)
  IN  /\ initialized' = TRUE
      /\ initPc' = "getDirectory"
      /\ initRef' = id
      /\ heap' = Allocate(heap, id, EmptyFileSystem)
      /\ tasks' = Disturbed(tasks)
      /\ out' = Quiet
      /\ UNCHANGED <<backing, fileSystem, cache, listeners, walkers, held,
                     calls, walks, resyncs>>

\* the first call sets the flag and awaits the root; a later call returns
initializeFileSystemIfNeeded ==
  /\ IF initialized
     THEN /\ out' = Returned("initializeFileSystemIfNeeded", <<>>, <<>>)
          /\ UNCHANGED <<heap, initialized, initPc, initRef, tasks>>
     ELSE LET id == FreshObject(heap)
          IN  /\ initialized' = TRUE
              /\ initPc' = "getDirectory"
              /\ initRef' = id
              /\ heap' = Allocate(heap, id, EmptyFileSystem)
              /\ tasks' = Disturbed(tasks)
              /\ out' = Quiet
  /\ UNCHANGED <<backing, fileSystem, cache, listeners, walkers, held, calls,
                 walks, resyncs>>

\* `await navigator.storage.getDirectory()` answers: visitHandles runs up to
\* its first await
initializeGotDirectory ==
  /\ initPc = "getDirectory"
  /\ initPc' = "visitHandles"
  /\ walks' = walks + 1
  /\ heap' = [heap EXCEPT ![initRef] =
                VisitedMapping(heap[initRef], handles, RootHandle, 0)]
  /\ walkers' = VisitedFrames(handles, RootHandle, 0)
  /\ out' = Quiet
  /\ UNCHANGED <<backing, fileSystem, cache, listeners, initialized, initRef,
                 tasks, held, calls, resyncs>>

\* `root.values()` yields a child: visitHandles(child, ...) is called and
\* not awaited
visitHandlesNext(w, child) ==
  /\ w \in walkers
  /\ child \in Children(handles, w.dir) \ w.seen
  /\ heap' = [heap EXCEPT ![initRef] =
                VisitedMapping(heap[initRef], handles, child, w.depth + 1)]
  /\ walkers' = (walkers \ {w})
                  \cup {Frame(w.dir, w.depth, w.seen \cup {child})}
                  \cup VisitedFrames(handles, child, w.depth + 1)
  /\ out' = Quiet
  /\ UNCHANGED <<backing, fileSystem, cache, listeners, initialized, initPc,
                 initRef, tasks, held, calls, walks, resyncs>>

\* the loop of a visitHandles invocation below the root ends
visitHandlesDone(w) ==
  /\ w \in walkers
  /\ w.depth > 0
  /\ Children(handles, w.dir) \ w.seen = {}
  /\ walkers' = walkers \ {w}
  /\ LET ir == IF walkers' = {} /\ initPc = "done" THEN NoObject ELSE initRef
     IN  /\ initRef' = ir
         /\ heap' = Live(heap, Referenced(fileSystem, cache, held, ir))
  /\ out' = Quiet
  /\ UNCHANGED <<backing, fileSystem, cache, listeners, initialized, initPc,
                 tasks, held, calls, walks, resyncs>>

\* the loop over the root ends: `await visitHandles(root, ...)` returns and
\* the store publishes initialFileSystem and notifies every listener
initializeVisited(w) ==
  /\ initPc = "visitHandles"
  /\ w \in walkers
  /\ w.depth = 0
  /\ Children(handles, w.dir) \ w.seen = {}
  /\ walkers' = walkers \ {w}
  /\ initPc' = "done"
  /\ fileSystem' = initRef
  /\ cache' = [f \in {} |-> NoObject]
  /\ LET ir == IF walkers' = {} THEN NoObject ELSE initRef
     IN  /\ initRef' = ir
         /\ heap' = Live(heap, {initRef, held.ref})
  /\ out' = [Quiet EXCEPT !.op = "initializeFileSystemIfNeeded",
                          !.end = "return", !.notify = "all",
                          !.invoked = Invoked(listeners, FALSE, {})]
  /\ resyncs' = resyncs + 1
  /\ UNCHANGED <<backing, listeners, initialized, tasks, held, calls, walks>>

(***************************************************************************)
(* reloadFileSystem(options): the resynchronisation the second useFileSystem *)
(* calls. Its walk is visitHandles; what it does with the walk is taken     *)
(* from the contract of reloadFileSystem.                                   *)
(***************************************************************************)
RECURSIVE Depth(_, _)
\* the number of directories between the root and handle h
Depth(hs, h) == IF hs[h].parent = 0 THEN 0 ELSE 1 + Depth(hs, hs[h].parent)

\* the path visitHandles(root, visitor) passes to visitor for handle h
WalkPath(hs, h) == VisitorPath(Depth(hs, h), hs[h].name, hs[h].name)

\* the handles a walk of the root has visited when `await visitHandles`
\* returns: the root and its children, and of the handles below them, whose
\* visitHandles calls are not awaited, any that follow their parent
WalkedSets(hs) ==
  {S \in SUBSET {h \in 1..Len(hs) : hs[h].alive} :
     /\ RootHandle \in S
     /\ Children(hs, RootHandle) \subseteq S
     /\ \A h \in S : h # RootHandle => hs[h].parent \in S}

\* the mappings such a walk can have collected
FreshWalks(hs) ==
  UNION {{m \in [{WalkPath(hs, h) : h \in S} -> S] :
            \A p \in DOMAIN m : WalkPath(hs, m[p]) = p} : S \in WalkedSets(hs)}

\* { ...m, ...n }
Merged(m, n) ==
  [p \in DOMAIN m \cup DOMAIN n |-> IF p \in DOMAIN n THEN n[p] ELSE m[p]]

\* up to the first await: the root is asked for
reloadFileSystem(options) ==
  /\ CanCall
  /\ Suspend([Started("reloadFileSystem", <<>>, <<>>, FALSE, 0, 0, "walk")
                EXCEPT !.opt = options])

\* the walk has returned: the mapping is rebuilt, or the entries the filter
\* holds for are brought up to the walk, and the listeners are notified
reloadFileSystemWalked(s) ==
  /\ tasks[s].op = "reloadFileSystem" /\ tasks[s].pc = "walk"
  /\ \E fresh \in FreshWalks(handles) :
       IF tasks[s].opt = NoFilter
       THEN /\ Replace(fresh)
            /\ tasks' = [tasks EXCEPT ![s] = Idle]
            /\ out' = [Quiet EXCEPT !.op = "reloadFileSystem",
                                    !.end = "return", !.notify = "all",
                                    !.invoked = Invoked(listeners, FALSE, {})]
       ELSE LET filter == tasks[s].opt
                m == heap[fileSystem]
                matching == Filtered(fresh, filter)
                removed == {p \in DOMAIN m :
                              FilterHolds(filter, p) /\ p \notin DOMAIN fresh}
            IN  Commit(s, Without(Merged(m, matching), removed), <<>>,
                       removed \cup DOMAIN matching)
  /\ UNCHANGED <<backing, listeners, initialization, held, calls>>

(***************************************************************************)
(* The specification.                                                      *)
(***************************************************************************)
\* the store's operations, the initialization and the walk
NextStore ==
  \/ \E p \in PathArgs, n \in Names, data \in BOOLEAN : createFile(p, n, data)
  \/ \E s \in Slots : createFileProbed(s)
  \/ \E s \in Slots : createFileCreated(s)
  \/ \E s \in Slots : createFileWritten(s)
  \/ \E p \in PathArgs, n \in Names : createDirectory(p, n)
  \/ \E s \in Slots : createDirectoryProbed(s)
  \/ \E s \in Slots : createDirectoryCreated(s)
  \/ \E p \in PathArgs, n \in Names : renameFile(p, n)
  \/ \E s \in Slots : renameFileMoved(s)
  \/ \E p \in PathArgs, n \in Names : renameDirectory(p, n)
  \/ \E s \in Slots : renameDirectoryMoved(s)
  \/ \E p \in PathArgs, d \in PathArgs : moveFile(p, d)
  \/ \E s \in Slots : moveFileMoved(s)
  \/ \E p \in PathArgs, recursive \in BOOLEAN : removeEntry(p, recursive)
  \/ \E s \in Slots : removeEntryRemoved(s)
  \/ initializeFileSystemIfNeeded
  \/ initializeGotDirectory
  \/ \E w \in walkers : \E c \in 1..Len(handles) : visitHandlesNext(w, c)
  \/ \E w \in walkers : visitHandlesDone(w)
  \/ \E w \in walkers : initializeVisited(w)

\* the store on its own: callers that await their calls and callers that
\* do not
Next == NextStore

Spec == Init /\ [][Next]_vars

\* the store and its listeners, the caller awaiting each call
NextListeners ==
  \/ NextStore
  \/ \E l \in Listeners, o \in Options : addFileSystemListener(l, o)
  \/ \E l \in Listeners : removeFileSystemListener(l)

InitListeners == InitWith(TRUE, MaxObservedCalls + 1)

SpecListeners == InitListeners /\ [][NextListeners]_vars

\* the store and an observer reading snapshots, the caller awaiting each call
NextSnapshots ==
  \/ NextStore
  \/ \E o \in Options : getFileSystem(o)

InitSnapshots == InitWith(TRUE, MaxObservedCalls)

SpecSnapshots == InitSnapshots /\ [][NextSnapshots]_vars

\* the store resynchronised by reloadFileSystem, the caller awaiting each
\* call
NextReload ==
  \/ NextStore
  \/ \E o \in Options : reloadFileSystem(o)
  \/ \E s \in Slots : reloadFileSystemWalked(s)

InitReload == InitWith(TRUE, MaxObservedCalls + 1)

SpecReload == InitReload /\ [][NextReload]_vars

(***************************************************************************)
(* The claims.                                                             *)
(***************************************************************************)
\* the authoritative mapping
Mapping == heap[fileSystem]

\* every operation called so far has completed
AllCompleted == FreeSlots = Slots

\* C1: once initializeFileSystemIfNeeded has completed and every call of
\* createFile, createDirectory, renameFile, renameDirectory, moveFile and
\* removeEntry has completed, every path of the mapping but the root has its
\* parent path (the path cut at its last "/") in the mapping, mapped to a
\* directory handle.
C1_ParentIsDirectory ==
  (initPc = "done" /\ AllCompleted) =>
    \A P \in DOMAIN Mapping :
      P # Root =>
        /\ ParentPath(P) \in DOMAIN Mapping
        /\ isDirectoryHandle(handles, Mapping[ParentPath(P)])

\* C2: what getFileSystem returns for a filter is exactly the entries of the
\* current mapping whose path satisfies the filter (the whole mapping without
\* a filter): a cached view is never returned after the mapping has changed.
C2_ViewIsCurrent ==
  out.op = "getFileSystem" =>
    held.copy = IF held.opt = NoFilter THEN Mapping
                ELSE [p \in {q \in DOMAIN Mapping : FilterHolds(held.opt, q)}
                        |-> Mapping[p]]

\* C3: a notification with changed paths invokes a registered listener with
\* a filter exactly when the filter holds for one of the changed paths; a
\* listener registered without a filter is invoked by every notification,
\* that of the initialization included; a listener that is not registered
\* (any more) is not invoked.
C3_ListenersNotified ==
  out.notify # "no" =>
    /\ out.invoked \subseteq DOMAIN listeners
    /\ \A l \in DOMAIN listeners :
         /\ listeners[l] = NoFilter => l \in out.invoked
         /\ (listeners[l] # NoFilter /\ out.notify = "paths") =>
              (l \in out.invoked <=>
                 \E path \in out.changed : FilterHolds(listeners[l], path))

\* a notification that invokes one filtered listener and passes over another
C3_Witness ==
  /\ out.notify = "paths"
  /\ \E l1 \in DOMAIN listeners, l2 \in DOMAIN listeners :
       /\ listeners[l1] # NoFilter /\ l1 \in out.invoked
       /\ listeners[l2] # NoFilter /\ l2 \notin out.invoked

\* a call of initializeFileSystemIfNeeded that returns at once
InitializeReturned ==
  /\ out.op = "initializeFileSystemIfNeeded"
  /\ out.end = "return"
  /\ out.notify = "no"

\* C4: whatever the number of calls of initializeFileSystemIfNeeded, also
\* when one is made while the first is in progress, the backing root is
\* walked once and the listeners are notified once, and a call after the
\* first changes nothing: the mapping is that of a single call.
C4_InitializeOnce ==
  /\ [](/\ walks <= 1
        /\ resyncs <= 1
        /\ (initPc = "done" => walks = 1 /\ resyncs = 1))
  /\ [][InitializeReturned' =>
          UNCHANGED <<handles, heap, fileSystem, cache, initialized, initPc,
                      initRef, walkers, walks, resyncs>>]_vars

\* a second call has returned while the first is still walking
C4_Witness ==
  /\ InitializeReturned
  /\ initPc = "visitHandles"
  /\ walks = 1

\* the handles of the backing storage the walk has to find
InBacking(h) == handles[h].alive

\* C5: when initializeFileSystemIfNeeded notifies the listeners the walk has
\* finished: the mapping holds an entry for the root and for every
\* descendant of the root, and no visitHandles invocation is still running
\* that could add an entry afterwards.
C5_WalkFinishedAtNotification ==
  (out.op = "initializeFileSystemIfNeeded" /\ out.notify = "all") =>
    /\ walkers = {}
    /\ \A h \in 1..Len(handles) :
         InBacking(h) => \E P \in DOMAIN Mapping : Mapping[P] = h

\* C6: the object getFileSystem returned still has the entries it had when
\* it was returned.
C6_SnapshotIsCopy ==
  held.ref # NoObject => heap[held.ref] = held.copy

\* the operation in slot s takes a step
Stepped(s) ==
  /\ tasks[s].op # "idle"
  /\ tasks'[s].op = "idle" \/ tasks'[s].pc # tasks[s].pc

\* the operation in slot s returns
ReturnedFrom(s) ==
  /\ tasks[s].op # "idle"
  /\ tasks'[s].op = "idle"
  /\ out'.end = "return"

Creates == {"createFile", "createDirectory"}

KindCreated(op) == IF op = "createFile" THEN "file" ELSE "directory"

\* C7: a successful createFile(dirPath, name) or createDirectory(dirPath,
\* name) sets the one key dirPath + "/" + name of the mapping to a handle of
\* the created kind and leaves every other entry as it was; it returns that
\* path and notifies the listeners matching {dirPath, newPath}; the mapping
\* a getFileSystem() call gets afterwards holds the new path.
C7_CreateAddsOneEntry ==
  [][\A s \in Slots :
       LET t == tasks[s]
           newPath == t.path \o <<"/">> \o t.arg
       IN  t.op \in Creates =>
             /\ (t.pc = "create" /\ Stepped(s) /\ out'.end # "throw") =>
                  /\ DOMAIN Mapping' = DOMAIN Mapping \cup {newPath}
                  /\ handles'[Mapping'[newPath]].kind = KindCreated(t.op)
                  /\ \A p \in DOMAIN Mapping \ {newPath} :
                       Mapping'[p] = Mapping[p]
             /\ ReturnedFrom(s) =>
                  /\ out'.ret = newPath
                  /\ out'.notify = "paths"
                  /\ out'.invoked =
                       {l \in DOMAIN listeners :
                          \/ listeners[l] = NoFilter
                          \/ FilterHolds(listeners[l], t.path)
                          \/ FilterHolds(listeners[l], newPath)}
                  /\ newPath \in DOMAIN Mapping'
                  /\ handles'[Mapping'[newPath]].kind = KindCreated(t.op)
    ]_vars

\* createFile has returned a new path next to other entries, one listener
\* notified and one not
C7_Witness ==
  /\ out.op = "createFile"
  /\ out.end = "return"
  /\ out.ret \in DOMAIN Mapping
  /\ Cardinality(DOMAIN Mapping) > 2
  /\ out.invoked # {}
  /\ out.invoked # DOMAIN listeners

\* the entries called name the directory handle d holds in backing storage
EntriesNamed(d, name) ==
  {c \in 1..Len(handles) :
     handles[c].alive /\ handles[c].parent = d /\ handles[c].name = name}

Validating ==
  {"createFile", "createDirectory", "renameFile", "renameDirectory",
   "removeEntry"}

\* the path argument passes the operation's validation
ValidArgument(op, path) ==
  CASE op \in Creates ->
         /\ path \in DOMAIN Mapping
         /\ handles[Mapping[path]].kind = "directory"
    [] op = "renameFile" ->
         /\ path # Root
         /\ path \in DOMAIN Mapping
         /\ handles[Mapping[path]].kind = "file"
    [] op = "renameDirectory" ->
         /\ path # Root
         /\ path \in DOMAIN Mapping
         /\ handles[Mapping[path]].kind = "directory"
    [] op = "removeEntry" ->
         /\ path # Root
         /\ ParentPath(path) \in DOMAIN Mapping
         /\ handles[Mapping[ParentPath(path)]].kind = "directory"

\* C9: createFile and createDirectory on an absent or non-directory
\* dirPath, renameFile on the root or an absent or non-file path,
\* renameDirectory on the root or an absent or non-directory path and
\* removeEntry on the root or a path whose parent is absent or no directory
\* fail with an error before any call of the backing storage: no operation
\* starts with such an argument, and the failing call leaves backing
\* storage, mapping and cache as they were and notifies no listener.
C9_InvalidArgumentRejected ==
  [][/\ (out'.op \in Validating /\ out'.end # "" /\ tasks' = tasks) =>
          (~ValidArgument(out'.op, out'.path) =>
             /\ out'.end = "throw"
             /\ UNCHANGED <<handles, heap, fileSystem, cache>>
             /\ out'.notify = "no"
             /\ out'.invoked = {})
     /\ \A s \in Slots :
          (tasks[s].op = "idle" /\ tasks'[s].op \in Validating) =>
            ValidArgument(tasks'[s].op, tasks'[s].path)
    ]_vars

\* removeEntry has rejected a path whose parent is not in the mapping
C9_Witness ==
  /\ out.op = "removeEntry"
  /\ out.end = "throw"
  /\ out.path # Root
  /\ ParentPath(out.path) \notin DOMAIN Mapping
  /\ initPc = "done"

\* the path renameFile or moveFile moves the entry to
MovedPath(t) ==
  IF t.op = "renameFile" THEN ParentPath(t.path) \o <<"/">> \o t.arg
  ELSE t.arg \o <<"/">> \o handles[t.h].name

\* what C10 says of every entry but the one at the old path
MovedEntry(t) ==
  /\ MovedPath(t) \in DOMAIN Mapping'
  /\ Mapping'[MovedPath(t)] = Mapping[t.path]
  /\ DOMAIN Mapping' \subseteq DOMAIN Mapping \cup {MovedPath(t)}
  /\ \A p \in DOMAIN Mapping \ {t.path, MovedPath(t)} :
       p \in DOMAIN Mapping' /\ Mapping'[p] = Mapping[p]
  /\ out'.ret = MovedPath(t)

\* a renameFile or moveFile that ran on its own ends with a notification
MovedAlone(s) ==
  /\ tasks[s].op \in {"renameFile", "moveFile"}
  /\ tasks[s].solo
  /\ ReturnedFrom(s)

\* C10 as claimed: after a successful renameFile or moveFile that ran
\* without interleaving the old path is absent from the mapping, the new
\* path maps to the same handle, every other entry is unchanged and the new
\* path is returned.
C10_OldPathAbsent ==
  [][\A s \in Slots :
       MovedAlone(s) =>
         /\ tasks[s].path \notin DOMAIN Mapping'
         /\ MovedEntry(tasks[s])
    ]_vars

\* C10 as amended: the old path is absent unless it is the new path too
\* (a rename to the name the file has, a move into the directory of its
\* path); the rest as claimed.
C10_OldPathAbsentUnlessNew ==
  [][\A s \in Slots :
       MovedAlone(s) =>
         /\ tasks[s].path # MovedPath(tasks[s]) =>
              tasks[s].path \notin DOMAIN Mapping'
         /\ MovedEntry(tasks[s])
    ]_vars

\* a file has been renamed: its old path is gone, its new path is there
C10_Witness ==
  /\ out.op = "renameFile"
  /\ out.notify = "paths"
  /\ out.ret # out.path
  /\ out.ret \in DOMAIN Mapping
  /\ out.path \notin DOMAIN Mapping

\* the path renameDirectory moves the directory to
RenamedPath(t) == ParentPath(t.path) \o <<"/">> \o t.arg

\* the keys of m below path: those with the prefix path + "/"
Descendants(m, path) ==
  {p \in DOMAIN m : StartsWith(p, path \o <<"/">>)}

\* C11: after a successful renameDirectory(path, newName) that ran without
\* interleaving, every entry of the mapping that was below path (its key
\* began with path + "/") is in the mapping under the new directory path,
\* with the same handle, and no key with the old prefix is left.
C11_DescendantsRekeyed ==
  [][\A s \in Slots :
       (tasks[s].op = "renameDirectory" /\ tasks[s].solo /\ ReturnedFrom(s)) =>
         LET path == tasks[s].path
             newPath == RenamedPath(tasks[s])
         IN  /\ \A p \in Descendants(Mapping, path) :
                  LET q == newPath \o SliceFrom(p, Len(path))
                  IN  q \in DOMAIN Mapping' /\ Mapping'[q] = Mapping[p]
             /\ newPath # path => Descendants(Mapping', path) = {}
    ]_vars

\* the operations that need the move method of the handle
Movers == {"renameFile", "renameDirectory", "moveFile"}

\* the handle at path is of the kind the operation works on
MoverFinds(op, path) ==
  /\ path # Root
  /\ path \in DOMAIN Mapping
  /\ handles[Mapping[path]].kind =
       (IF op = "renameDirectory" THEN "directory" ELSE "file")

\* C12: when the handles have no move method, renameFile, renameDirectory
\* and moveFile called on a path that holds a handle of their kind return
\* the path they were given, call nothing of the backing storage (no
\* operation of theirs is ever suspended in a call), leave backing storage,
\* mapping and cache of filtered views as they were and notify no listener.
C12_NoMoveIsNoOp ==
  [][~hasMove =>
       /\ (/\ out'.op \in Movers /\ out'.end # "" /\ tasks' = tasks
           /\ MoverFinds(out'.op, out'.path)) =>
            /\ out'.end = "return"
            /\ out'.ret = out'.path
            /\ UNCHANGED <<handles, heap, fileSystem, cache>>
            /\ out'.notify = "no"
            /\ out'.invoked = {}
       /\ \A s \in Slots : tasks'[s].op \notin Movers
    ]_vars

\* moveFile has returned the path of a file unchanged for want of a move
\* method, the target being a directory of the mapping
C12_Witness ==
  /\ ~hasMove
  /\ out.op = "moveFile"
  /\ out.end = "return"
  /\ out.ret = out.path
  /\ MoverFinds("moveFile", out.path)
  /\ initPc = "done"

\* moveFile can move: a file at filePath, a directory at directoryPath
Movable(filePath, directoryPath) ==
  /\ filePath # Root
  /\ filePath \in DOMAIN Mapping
  /\ handles[Mapping[filePath]].kind = "file"
  /\ directoryPath \in DOMAIN Mapping
  /\ handles[Mapping[directoryPath]].kind = "directory"

\* C13: moveFile(path, targetDirPath) with path the root, or path absent or
\* no file, or targetDirPath absent or no directory fails silently: it
\* returns path, raises no error, changes neither backing storage nor
\* mapping nor cache and notifies no listener. So every call of moveFile
\* that ends before its first await returns its path, and a moveFile in
\* flight has a file path and a directory path.
C13_MoveFailsSilently ==
  [][/\ (out'.op = "moveFile" /\ out'.end # "" /\ tasks' = tasks) =>
          /\ out'.end = "return"
          /\ out'.ret = out'.path
          /\ out'.err = ""
          /\ UNCHANGED <<handles, heap, fileSystem, cache>>
          /\ out'.notify = "no"
     /\ \A s \in Slots :
          (tasks[s].op = "idle" /\ tasks'[s].op = "moveFile") =>
            Movable(tasks'[s].path, tasks'[s].arg)
    ]_vars

\* C13 as amended: moveFile on the root fails with the error "Cannot move
\* file system root"; with path absent or no file, or targetDirPath absent
\* or no directory, it fails silently and returns path. Either way backing
\* storage, mapping and cache are as before and no listener is notified.
C13_MoveFailsSilentlyButRoot ==
  [][/\ (out'.op = "moveFile" /\ out'.end # "" /\ tasks' = tasks) =>
          /\ IF out'.path = Root
             THEN /\ out'.end = "throw"
                  /\ out'.err = "Cannot move file system root"
             ELSE /\ out'.end = "return"
                  /\ out'.ret = out'.path
                  /\ out'.err = ""
          /\ UNCHANGED <<handles, heap, fileSystem, cache>>
          /\ out'.notify = "no"
     /\ \A s \in Slots :
          (tasks[s].op = "idle" /\ tasks'[s].op = "moveFile") =>
            Movable(tasks'[s].path, tasks'[s].arg)
    ]_vars

\* moveFile has returned the path of a directory unchanged although the
\* handles have a move method
C13_Witness ==
  /\ hasMove
  /\ out.op = "moveFile"
  /\ out.end = "return"
  /\ out.ret = out.path
  /\ out.path \in DOMAIN Mapping
  /\ handles[Mapping[out.path]].kind = "directory"

\* C14: a successful removeEntry(path, {recursive: true}) leaves the
\* mapping without path and without any key beginning with path + "/",
\* every other entry as it was, and notifies with a set of changed paths
\* that holds the parent path, path and every removed key; without
\* recursive, path is the only key deleted.
C14_RemoveDeletesSubtree ==
  [][\A s \in Slots :
       (tasks[s].op = "removeEntry" /\ ReturnedFrom(s)) =>
         LET path == tasks[s].path
             below == Descendants(Mapping, path)
             removed == DOMAIN Mapping \ DOMAIN Mapping'
         IN  /\ DOMAIN Mapping' \subseteq DOMAIN Mapping
             /\ \A p \in DOMAIN Mapping' : Mapping'[p] = Mapping[p]
             /\ path \notin DOMAIN Mapping'
             /\ IF tasks[s].flag
                THEN /\ Descendants(Mapping', path) = {}
                     /\ removed \subseteq {path} \cup below
                ELSE removed \subseteq {path}
             /\ out'.notify = "paths"
             /\ {ParentPath(path), path} \cup removed \subseteq out'.changed
    ]_vars

\* a recursive removeEntry has removed a directory and an entry below it
C14_Witness ==
  /\ out.op = "removeEntry"
  /\ out.notify = "paths"
  /\ out.path \in out.changed
  /\ \E p \in out.changed : StartsWith(p, out.path \o <<"/">>)
  /\ out.changed \cap DOMAIN Mapping = {ParentPath(out.path)}

\* a reload with a filter ends in slot s
ReloadedWith(s) ==
  /\ tasks[s].op = "reloadFileSystem"
  /\ tasks[s].opt # NoFilter
  /\ ReturnedFrom(s)

\* C15: a reload with a filter changes only the entries whose path
\* satisfies the filter. An entry whose path does not satisfy it is left as
\* it was (none is added, none removed, none gets another handle); an entry
\* whose path satisfies it is afterwards an entry of a fresh walk of the
\* backing root, those the walk does not find being deleted and those it
\* finds merged in, the root and its children among them.
C15_ReloadKeepsTheRest ==
  [][\A s \in Slots :
       ReloadedWith(s) =>
         LET filter == tasks[s].opt
         IN  /\ \A p \in DOMAIN Mapping \cup DOMAIN Mapping' :
                  ~FilterHolds(filter, p) =>
                    /\ p \in DOMAIN Mapping /\ p \in DOMAIN Mapping'
                    /\ Mapping'[p] = Mapping[p]
             /\ \A p \in DOMAIN Mapping' :
                  FilterHolds(filter, p) =>
                    /\ handles[Mapping'[p]].alive
                    /\ WalkPath(handles, Mapping'[p]) = p
             /\ \A h \in {RootHandle} \cup Children(handles, RootHandle) :
                  FilterHolds(filter, WalkPath(handles, h)) =>
                    /\ WalkPath(handles, h) \in DOMAIN Mapping'
                    /\ Mapping'[WalkPath(handles, h)] = h
    ]_vars

\* a reload with a filter has deleted an entry and kept another
C15_Witness ==
  /\ out.op = "reloadFileSystem"
  /\ out.notify = "paths"
  /\ out.changed \ DOMAIN Mapping # {}
  /\ Cardinality(DOMAIN Mapping) > 1

\* what the visitor of the initialization has been called with so far
Visited == heap[initRef]

\* C16: visitHandles(root, visit) calls visit for the root with the root's
\* name as path, and for a descendant after its parent, with the path its
\* parent was visited with, followed by "/" and the descendant's name; no
\* handle is visited under two paths. Stated of the walk of the
\* initialization, while the backing storage is as it was at the start.
C16_WalkJoinsAncestors ==
  (initRef # NoObject /\ handles \in InitialTrees) =>
    /\ \A p \in DOMAIN Visited :
         LET h == Visited[p]
         IN  IF h = RootHandle THEN p = handles[h].name
             ELSE \E q \in DOMAIN Visited :
                    /\ Visited[q] = handles[h].parent
                    /\ p = q \o <<"/">> \o handles[h].name
    /\ \A p \in DOMAIN Visited, q \in DOMAIN Visited :
         Visited[p] = Visited[q] => p = q

\* the renameFile in slot s completes right after another renameFile of the
\* same path, to another name, has completed: both were in flight together.
\* Neither name is the one the file had.
SecondRename(s) ==
  /\ tasks[s].op = "renameFile"
  /\ ReturnedFrom(s)
  /\ out.op = "renameFile" /\ out.notify = "paths"
  /\ out.path = tasks[s].path
  /\ out.ret # MovedPath(tasks[s])
  /\ out.ret # out.path
  /\ MovedPath(tasks[s]) # tasks[s].path

\* C17: when two renameFile calls on one file path, with different new
\* names, were issued without awaiting the first and both have completed,
\* the mapping holds the new path of the second completion for the file's
\* handle and holds neither the old path nor the new path of the first
\* completion.
C17_SecondRenameOverwrites ==
  [][\A s \in Slots :
       SecondRename(s) =>
         /\ MovedPath(tasks[s]) \in DOMAIN Mapping'
         /\ Mapping'[MovedPath(tasks[s])] = tasks[s].h
         /\ tasks[s].path \notin DOMAIN Mapping'
         /\ out.ret \notin DOMAIN Mapping'
    ]_vars

\* C18: an operation replaces the mapping, clears the cache of filtered
\* views and notifies the listeners in one step, without an await between
\* them: whenever a step of an operation changes the mapping, that step
\* notifies, so that no getFileSystem call sees a mapping whose change has
\* not been notified.
C18_ChangeAndNotificationTogether ==
  [][\A s \in Slots :
       (Stepped(s) /\ Mapping' # Mapping) =>
         /\ out'.notify = "paths"
         /\ cache' = [f \in {} |-> NoObject]
    ]_vars

\* the operations of the store that change the mapping
StoreOperations ==
  {"createFile", "createDirectory", "renameFile", "renameDirectory",
   "moveFile", "removeEntry"}

\* C19: when createFile (with or without data), createDirectory,
\* renameFile, renameDirectory, moveFile or removeEntry ends with an error,
\* be it its own, that of a backing-storage call or that of the data write,
\* the mapping is the mapping before the call. Stated of the calls that ran
\* without interleaving.
C19_ErrorLeavesMapping ==
  [][/\ \A s \in Slots :
          (/\ tasks[s].op \in StoreOperations /\ tasks[s].solo
           /\ tasks'[s].op = "idle" /\ out'.end = "throw") =>
            Mapping' = tasks[s].before
     /\ (out'.op \in StoreOperations /\ out'.end = "throw" /\ tasks' = tasks) =>
          Mapping' = Mapping
    ]_vars

\* every cached view is the current mapping cut down to its filter
CacheIsCurrent ==
  \A f \in DOMAIN cache : heap[cache[f]] = Filtered(Mapping, f)

\* a getFileSystem call right after another, with the same options, returns
\* the object the other returned
SameSnapshotAgain ==
  (/\ out.op = "getFileSystem" /\ out'.op = "getFileSystem"
   /\ held'.opt = held.opt) =>
    held'.ref = held.ref

\* a getFileSystem call returns another object than the last call with the
\* same options only when the mapping has been replaced since
NewSnapshotAfterReplacement ==
  (/\ out'.op = "getFileSystem" /\ held.ref # NoObject
   /\ held'.opt = held.opt /\ held'.ref # held.ref) =>
    IF held.opt = NoFilter THEN held.ref # fileSystem
    ELSE held.opt \notin DOMAIN cache

\* C20: between two changes of the mapping getFileSystem calls with the
\* same filter (or none) return the very same object, the cache of filtered
\* views only ever holds views computed from the current mapping, and the
\* object returned changes only after a mutation or the initialization has
\* replaced the mapping.
C20_SnapshotsAreStable ==
  /\ []CacheIsCurrent
  /\ [][SameSnapshotAgain /\ NewSnapshotAfterReplacement]_vars

====
